---- MODULE Spec2Model ----
(***************************************************************************)
(* Model of backend/app/main.py: the /api/analyze handler of the Solana    *)
(* error translator, its log pattern and its catalog helpers.              *)
(*                                                                         *)
(* Python str values that the code inspects character by character (log   *)
(* lines, program ids, error codes, signatures) are tuples of one          *)
(* character strings; texts the code only passes on are TLA+ strings.      *)
(* None is the empty tuple: every Optional the code tests holds either     *)
(* None or a non-empty value (a dict with keys, a match of \S+).           *)
(***************************************************************************)
EXTENDS Naturals, Sequences, FiniteSets, TLC

VARIABLES phase, errors_json, environ, ERROR_DB, last, same_input,
          same_outcome, call

vars == <<phase, errors_json, environ, ERROR_DB, last, same_input,
          same_outcome, call>>

\* ------------------------------------------------------------------ bounds

\* Largest number of log lines a transaction record carries.
MaxLogs == 2

\* ------------------------------------------------------------- characters

None == <<>>

IsNone(v) == DOMAIN v = {}

UpperCase == <<"A","B","C","D","E","F","G","H","I","J","K","L","M",
               "N","O","P","Q","R","S","T","U","V","W","X","Y","Z">>

LowerCase == <<"a","b","c","d","e","f","g","h","i","j","k","l","m",
               "n","o","p","q","r","s","t","u","v","w","x","y","z">>

\* str.lower() on one character.
lower_char(c) ==
    IF \E i \in 1..26 : UpperCase[i] = c
    THEN LowerCase[CHOOSE i \in 1..26 : UpperCase[i] = c]
    ELSE c

\* str.lower()
lower(s) == [i \in 1..Len(s) |-> lower_char(s[i])]

\* What \S excludes and str.strip() removes.
isspace(c) == c \in {" ", "\t", "\n", "\r"}

HexDigits == {"0","1","2","3","4","5","6","7","8","9",
              "a","b","c","d","e","f","A","B","C","D","E","F"}

\* str.strip(): drop the leading and the trailing whitespace.
RECURSIVE lstrip(_)
lstrip(s) == IF s # <<>> /\ isspace(Head(s)) THEN lstrip(Tail(s)) ELSE s

RECURSIVE rstrip(_)
rstrip(s) ==
    IF s # <<>> /\ isspace(s[Len(s)])
    THEN rstrip(SubSeq(s, 1, Len(s) - 1))
    ELSE s

strip(s) == rstrip(lstrip(s))

\* ---------------------------------------------------------- _ERROR_PATTERN

\* r"Program (\S+) failed: custom program error: (0x[0-9a-fA-F]+)"
PatternHead == <<"P","r","o","g","r","a","m"," ">>

PatternMid == <<" ","f","a","i","l","e","d",":"," ","c","u","s","t","o","m",
                " ","p","r","o","g","r","a","m"," ","e","r","r","o","r",":",
                " ">>

PatternPrefix == <<"0","x">>

\* One pattern character against one input character under re.IGNORECASE.
CharMatches_case_sensitive(p, c) == p = c

CharMatches(p, c) == lower_char(p) = lower_char(c)

\* The literal lit matches line at position i.
LiteralAt(line, i, lit) ==
    /\ i + Len(lit) - 1 <= Len(line)
    /\ \A k \in 1..Len(lit) : CharMatches(lit[k], line[i + k - 1])

\* The character classes of the pattern: \S and [0-9a-fA-F].
InClass(class, c) ==
    IF class = "\\S" THEN ~isspace(c) ELSE c \in HexDigits

\* Length of the longest run of characters of class from position i on: what
\* a greedy + takes before the rest of the pattern makes it back off.

RECURSIVE RunLength(_, _, _)
RunLength(line, i, class) ==
    IF i <= Len(line) /\ InClass(class, line[i])
    THEN 1 + RunLength(line, i + 1, class)
    ELSE 0

\* " failed: custom program error: 0x" and at least one hex digit at q.
TailAt(line, q) ==
    /\ LiteralAt(line, q, PatternMid)
    /\ LiteralAt(line, q + Len(PatternMid), PatternPrefix)
    /\ RunLength(line, q + Len(PatternMid) + Len(PatternPrefix), "[0-9a-fA-F]") >= 1

\* The lengths (\S+) can take at p so that the rest of the pattern matches.
IdLengths(line, p) ==
    {k \in 1..RunLength(line, p, "\\S") : TailAt(line, p + k)}

Max(S) == CHOOSE x \in S : \A y \in S : y <= x

Min(S) == CHOOSE x \in S : \A y \in S : x <= y

\* The pattern matches with its first character at position s.
MatchesAt(line, s) ==
    /\ LiteralAt(line, s, PatternHead)
    /\ IdLengths(line, s + Len(PatternHead)) # {}

\* _ERROR_PATTERN.search(line): None, or the groups of the leftmost match,
\* (\S+) as long as it can be, the hex digits as many as there are.
_ERROR_PATTERN_search(line) ==
    LET starts == {s \in 1..Len(line) : MatchesAt(line, s)}
    IN  IF starts = {} THEN None
        ELSE LET s  == Min(starts)
                 p  == s + Len(PatternHead)
                 k  == Max(IdLengths(line, p))
                 c  == p + k + Len(PatternMid)
                 n  == RunLength(line, c + Len(PatternPrefix), "[0-9a-fA-F]")
             IN  [group1 |-> SubSeq(line, p, p + k - 1),
                  group2 |-> SubSeq(line, c, c + Len(PatternPrefix) + n - 1)]

\* ------------------------------------------------------ catalog helpers

\* dict.get(key, default)
dict_get(d, key, default) == IF key \in DOMAIN d THEN d[key] ELSE default

\* Python truth of a dict, a list, a str or None.
Truthy(v) == DOMAIN v # {}

\* _lookup_error(program_id, error_code) against the loaded ERROR_DB.
_lookup_error_no_lower(db, program_id, error_code) ==
    LET program_entry == dict_get(db, program_id, None)
    IN  IF ~Truthy(program_entry) THEN None
        ELSE dict_get(dict_get(program_entry, "errors", <<>>),
                      error_code, None)

_lookup_error_strips_prefix(db, program_id, error_code) ==
    LET program_entry == dict_get(db, program_id, None)
        digits == SubSeq(lower(error_code), 3, Len(error_code))
    IN  IF ~Truthy(program_entry) THEN None
        ELSE dict_get(dict_get(program_entry, "errors", <<>>), digits, None)

_lookup_error(db, program_id, error_code) ==
    LET program_entry == dict_get(db, program_id, None)
    IN  IF ~Truthy(program_entry) THEN None
        ELSE dict_get(dict_get(program_entry, "errors", <<>>),
                      lower(error_code), None)

\* entry["name"] raises KeyError when the entry has no "name".
_program_name_raises_unguarded(db, program_id) ==
    \/ program_id \notin DOMAIN db
    \/ "name" \notin DOMAIN db[program_id]

_program_name_raises(db, program_id) ==
    LET entry == dict_get(db, program_id, None)
    IN  Truthy(entry) /\ "name" \notin DOMAIN entry

\* _program_name(program_id), where it does not raise.
_program_name_always_id(db, program_id) == program_id

_program_name(db, program_id) ==
    LET entry == dict_get(db, program_id, None)
    IN  IF Truthy(entry) THEN entry["name"] ELSE program_id

\* --------------------------------------------------------- catalog sources

Tk == <<"T","k">>

Jup == <<"J","u","p">>

Code0x1 == <<"0","x","1">>

Code0x1a == <<"0","x","1","a">>

InsufficientFunds ==
    [name |-> "InsufficientFunds", message |-> "Insufficient funds"]

OwnerMismatch ==
    [name |-> "OwnerMismatch", message |-> "Account not associated with this Mint"]

SlippageExceeded ==
    [name |-> "SlippageToleranceExceeded", message |-> "Slippage tolerance exceeded"]

\* errors.json documents of the shape the helpers read: program id ->
\* {"name", "errors": {lower-case hex code -> {"name", "message"}}}, the
\* "errors" key optional (_lookup_error reads it with a default).
CatalogEmpty == <<>>

CatalogToken ==
    Tk :> [name |-> <<"T","o","k","e","n">>,
           errors |-> (Code0x1 :> InsufficientFunds @@ Code0x1a :> OwnerMismatch)]

CatalogTwo ==
    (Tk :> [name |-> <<"T","o","k","e","n">>])
    @@ (Jup :> [name |-> <<"J","u","p","i","t","e","r">>,
                errors |-> (Code0x1 :> SlippageExceeded)])

Catalogs == {CatalogEmpty, CatalogToken, CatalogTwo}

\* errors.json on disk: absent, not JSON, or one of the documents.
ErrorsFiles ==
    {[exists |-> FALSE, parses |-> FALSE, doc |-> None],
     [exists |-> TRUE, parses |-> FALSE, doc |-> None]}
    \cup {[exists |-> TRUE, parses |-> TRUE, doc |-> d] : d \in Catalogs}

\* The process environment after load_dotenv().
Environments ==
    {<<>>, "SOLANA_RPC_URL" :> "", "SOLANA_RPC_URL" :> "https://rpc.example"}

\* ----------------------------------------------------------------- inputs

TextProgram == <<"P","r","o","g","r","a","m"," ">>

TextFailed == <<" ","f","a","i","l","e","d",":"," ","c","u","s","t","o","m",
                " ","p","r","o","g","r","a","m"," ","e","r","r","o","r",":",
                " ">>

\* "Program Tk failed: custom program error: 0x1"
LineTk == TextProgram \o Tk \o TextFailed \o <<"0","x","1">>

\* "> Program Tk failed: custom program error: 0X1A."
LineTkUpperHex ==
    <<">"," ">> \o TextProgram \o Tk \o TextFailed \o <<"0","X","1","A",".">>

\* "program Jup FAILED: CUSTOM PROGRAM ERROR: 0x1"
LineJupShout ==
    <<"p","r","o","g","r","a","m"," ">> \o Jup
    \o <<" ","F","A","I","L","E","D",":"," ","C","U","S","T","O","M"," ",
         "P","R","O","G","R","A","M"," ","E","R","R","O","R",":"," ">>
    \o <<"0","x","1">>

\* "Program Tk invoke [1]"
LineInvoke == TextProgram \o Tk \o <<" ","i","n","v","o","k","e"," ","[","1","]">>

\* "Program Tk failed: custom program error: 0xZ"
LineNoHex == TextProgram \o Tk \o TextFailed \o <<"0","x","Z">>

Lines == {LineTk, LineTkUpperHex, LineJupShout, LineInvoke, LineNoHex}

\* Sequences of at most n lines.
RECURSIVE SeqsUpTo(_, _)
SeqsUpTo(S, n) ==
    IF n = 0 THEN {<<>>}
    ELSE LET shorter == SeqsUpTo(S, n - 1)
         IN  shorter \cup {Append(q, x) : q \in {r \in shorter : Len(r) = n - 1}, x \in S}

LogLists == SeqsUpTo(Lines, MaxLogs)

\* _ERROR_PATTERN.search(line) for the lines above, evaluated once.
search == [line \in Lines |-> _ERROR_PATTERN_search(line)]

\* Request bodies: the signature as sent.
Signatures == {<<" ","s","1"," ">>, <<"s","2">>, <<"b","!">>}

\* The strings Signature.from_string accepts.
WellFormedSignatures == {<<"s","1">>, <<"s","2">>}

\* Exceptions the RPC client can raise from get_transaction, by class.
NodeExceptions ==
    {[class |-> "ConnectError", str |-> "connection refused"],
     [class |-> "JSONDecodeError", str |-> "Expecting value"]}

\* The classes among them that derive from ValueError.
ValueErrorClasses == {"ValueError", "JSONDecodeError"}

Record(err, log_messages) ==
    [value |-> [transaction |-> [meta |-> [err |-> err, log_messages |-> log_messages]]]]

InstructionError == [InstructionError |-> "Custom"]

\* What the node does with get_transaction: raise, answer with no record,
\* or answer with a record (meta.err None or not, meta.log_messages None or
\* a list; None and the empty list are the one value <<>>).
NodeOutcomes ==
    {[raises |-> TRUE, exc |-> e, resp |-> None] : e \in NodeExceptions}
    \cup {[raises |-> FALSE, exc |-> None, resp |-> [value |-> None]]}
    \cup {[raises |-> FALSE, exc |-> None, resp |-> Record(None, <<LineInvoke>>)]}
    \cup {[raises |-> FALSE, exc |-> None, resp |-> Record(InstructionError, logs)] :
            logs \in LogLists}

\* ---------------------------------------------------------------- handler

HTTPException(status_code, text, arg) ==
    [kind |-> "HTTPException", status_code |-> status_code,
     detail |-> [text |-> text, arg |-> arg]]

Return(body) == [kind |-> "return", body |-> body]

Uncaught(class) == [kind |-> "uncaught", exc |-> class]

\* not rpc_url, for rpc_url = os.getenv("SOLANA_RPC_URL")
rpc_url_is_none(env) == "SOLANA_RPC_URL" \notin DOMAIN env

not_rpc_url(env) ==
    \/ "SOLANA_RPC_URL" \notin DOMAIN env
    \/ env["SOLANA_RPC_URL"] = ""

config_error ==
    HTTPException(500,
        "SOLANA_RPC_URL is not set. Please create a .env file from .env.example.", "")

\* The try block: what it raises or binds to resp, and how often it
\* called the node.
fetch(signature, node) ==
    IF strip(signature) \notin WellFormedSignatures
    THEN [raises |-> TRUE, calls |-> 0, resp |-> None,
          exc |-> [class |-> "ValueError", str |-> "invalid signature"]]
    ELSE [raises |-> node.raises, calls |-> 1, resp |-> node.resp, exc |-> node.exc]

\* The except clauses, in their order.
fetch_error_wrong_status(exc) ==
    IF exc.class \in ValueErrorClasses
    THEN HTTPException(400, "Invalid transaction signature: ", exc.str)
    ELSE HTTPException(500, "Failed to reach the Solana RPC node: ", exc.str)

fetch_error(exc) ==
    IF exc.class \in ValueErrorClasses
    THEN HTTPException(400, "Invalid transaction signature: ", exc.str)
    ELSE HTTPException(502, "Failed to reach the Solana RPC node: ", exc.str)

not_found ==
    HTTPException(404,
        "Transaction not found. The signature may be invalid, the transaction may not have been confirmed yet, or it may have been pruned from the RPC node's history.",
        "")

success ==
    Return([status |-> "success",
            message |-> "This transaction completed successfully - no errors were found."])

NoMatch == [program_id |-> None, error_code |-> None, matched_log |-> None]

\* The for loop over the logs.
RECURSIVE scan_logs_no_break(_)
scan_logs_no_break(logs) ==
    IF logs = <<>> THEN NoMatch
    ELSE LET m    == search[logs[Len(logs)]]
             rest == scan_logs_no_break(SubSeq(logs, 1, Len(logs) - 1))
         IN  IF ~IsNone(m)
             THEN [program_id |-> m.group1, error_code |-> lower(m.group2),
                   matched_log |-> logs[Len(logs)]]
             ELSE rest

RECURSIVE scan_logs(_)
scan_logs(logs) ==
    IF logs = <<>> THEN NoMatch
    ELSE LET line == Head(logs)
             m    == search[line]
         IN  IF ~IsNone(m)
             THEN [program_id |-> m.group1, error_code |-> lower(m.group2),
                   matched_log |-> line]
             ELSE scan_logs(Tail(logs))

error_unparsed(logs) ==
    Return([status |-> "error_unparsed",
            message |-> "The transaction failed, but no custom program error code was found in the transaction logs. The error may be a system-level failure (e.g., insufficient SOL for fees, account not found).",
            raw_logs |-> logs])

\* Steps 7 and 8.
translate(db, found) ==
    LET program_id == found.program_id
        error_code == found.error_code
        error_info == _lookup_error(db, program_id, error_code)
    IN  IF _program_name_raises(db, program_id) THEN Uncaught("KeyError")
        ELSE IF Truthy(error_info)
        THEN IF {"name", "message"} \subseteq DOMAIN error_info
             THEN Return([status |-> "error_found",
                          program_id |-> program_id,
                          program_name |-> _program_name(db, program_id),
                          error_code |-> error_code,
                          name |-> error_info["name"],
                          message |-> error_info["message"]])
             ELSE Uncaught("KeyError")
        ELSE Return([status |-> "error_unknown",
                     program_id |-> program_id,
                     program_name |-> _program_name(db, program_id),
                     error_code |-> error_code,
                     message |-> [text |-> "The transaction failed with error code {error_code} from program {program_id}, but this code is not yet in our database.",
                                  error_code |-> error_code,
                                  program_id |-> program_id],
                     raw_log |-> found.matched_log])

\* Steps 3 to 8: the response to a fetched resp, and the loop's variables.
classify(db, resp) ==
    IF IsNone(resp.value) THEN [response |-> not_found, found |-> NoMatch]
    ELSE LET meta == resp.value.transaction.meta
         IN  IF IsNone(meta.err) THEN [response |-> success, found |-> NoMatch]
             ELSE LET logs  == IF Truthy(meta.log_messages) THEN meta.log_messages ELSE <<>>
                      found == scan_logs(logs)
                  IN  IF IsNone(found.program_id)
                      THEN [response |-> error_unparsed(logs), found |-> found]
                      ELSE [response |-> translate(db, found), found |-> found]

\* analyze_transaction(body): the response, the number of node calls made
\* and the loop's variables.
analyze_transaction(env, db, signature, node) ==
    IF not_rpc_url(env)
    THEN [response |-> config_error, fetches |-> 0, found |-> NoMatch]
    ELSE LET f == fetch(signature, node)
         IN  IF f.raises
             THEN [response |-> fetch_error(f.exc), fetches |-> f.calls, found |-> NoMatch]
             ELSE LET c == classify(db, f.resp)
                  IN  [response |-> c.response, fetches |-> f.calls, found |-> c.found]

\* ------------------------------------------------------------ the process

\* Module import: load_dotenv(), the app, and ERROR_DB read from errors.json;
\* open() or json.load() raising ends the import, and the process with it.
import_main ==
    /\ phase = "import"
    /\ IF errors_json.exists /\ errors_json.parses
       THEN phase' = "serving" /\ ERROR_DB' = errors_json.doc
       ELSE phase' = "crashed" /\ ERROR_DB' = ERROR_DB
    /\ UNCHANGED <<errors_json, environ, last, same_input, same_outcome, call>>

\* The node is not called for a signature from_string rejects.
NotCalled == [raises |-> FALSE, exc |-> None, resp |-> [value |-> None]]

Requests ==
    {[signature |-> sig, node |-> node] : sig \in Signatures, node \in NodeOutcomes}

\* A handler that remembers the programs it has seen.
Serve_caching(request) ==
    LET r == analyze_transaction(environ, ERROR_DB, request.signature, request.node)
        same == IF IsNone(last) THEN FALSE ELSE last.request = request
    IN  /\ last' = [request |-> request, response |-> r.response,
                    fetches |-> r.fetches, found |-> r.found]
        /\ same_input' = same
        /\ same_outcome' = IF same THEN last.response = r.response ELSE FALSE
        /\ ERROR_DB' = IF IsNone(r.found.program_id)
                          \/ r.found.program_id \in DOMAIN ERROR_DB
                       THEN ERROR_DB
                       ELSE ERROR_DB @@ (r.found.program_id :>
                                [name |-> r.found.program_id])
        /\ UNCHANGED <<phase, errors_json, environ, call>>

\* One request, from the call of analyze_transaction to its response. The
\* handler is a coroutine that never awaits, so it runs to its end before
\* the event loop takes the next request.
Serve(request) ==
    LET r == analyze_transaction(environ, ERROR_DB, request.signature, request.node)
        same == IF IsNone(last) THEN FALSE ELSE last.request = request
    IN  /\ last' = [request |-> request, response |-> r.response,
                    fetches |-> r.fetches, found |-> r.found]
        /\ same_input' = same
        /\ same_outcome' = IF same THEN last.response = r.response ELSE FALSE
        /\ UNCHANGED <<phase, errors_json, environ, ERROR_DB, call>>

POST_api_analyze ==
    /\ phase = "serving"
    /\ \E request \in Requests :
          /\ strip(request.signature) \notin WellFormedSignatures
                => request.node = NotCalled
          /\ Serve(request)

Init ==
    /\ phase = "import"
    /\ errors_json \in ErrorsFiles
    /\ environ \in Environments
    /\ ERROR_DB = None
    /\ last = None
    /\ same_input = FALSE
    /\ same_outcome = FALSE
    /\ call = None

Next == import_main \/ POST_api_analyze

Spec == Init /\ [][Next]_vars

\* ------------------------------------------------- the helpers on their own

ProbeProgramIds == {Tk, Jup, <<"t","k">>, <<"J","U","P">>, <<"Z","z">>}

ProbeCodes ==
    {<<"0","x","1">>, <<"0","X","1">>, <<"0","x","1","a">>, <<"0","x","1","A">>,
     <<"0","X","1","a">>, <<"0","X","1","A">>, <<"0","x","2">>, <<"0","x","F","F">>}

call_lookup_error ==
    \E program_id \in ProbeProgramIds, error_code \in ProbeCodes :
        /\ call' = [fn |-> "_lookup_error", program_id |-> program_id,
                    error_code |-> error_code, raises |-> FALSE,
                    result |-> _lookup_error(ERROR_DB, program_id, error_code)]
        /\ UNCHANGED <<phase, errors_json, environ, ERROR_DB, last,
                       same_input, same_outcome>>

call_program_name ==
    \E program_id \in ProbeProgramIds :
        LET raises == _program_name_raises(ERROR_DB, program_id)
        IN  /\ call' = [fn |-> "_program_name", program_id |-> program_id,
                        error_code |-> None, raises |-> raises,
                        result |-> IF raises THEN None
                                   ELSE _program_name(ERROR_DB, program_id)]
            /\ UNCHANGED <<phase, errors_json, environ, ERROR_DB, last,
                           same_input, same_outcome>>

\* The process after a successful import, before any request.
InitHelpers ==
    /\ phase = "serving"
    /\ errors_json \in {f \in ErrorsFiles : f.exists /\ f.parses}
    /\ ERROR_DB = errors_json.doc
    /\ environ = ("SOLANA_RPC_URL" :> "https://rpc.example")
    /\ last = None
    /\ same_input = FALSE
    /\ same_outcome = FALSE
    /\ call = None

NextHelpers == call_lookup_error \/ call_program_name

SpecHelpers == InitHelpers /\ [][NextHelpers]_vars

\* ------------------------------------------------------------- the claims

\* A request has been handled; last holds it and its response.
Handled == ~IsNone(last)

EndpointConfigured ==
    /\ "SOLANA_RPC_URL" \in DOMAIN environ
    /\ environ["SOLANA_RPC_URL"] # ""

SignatureWellFormed == strip(last.request.signature) \in WellFormedSignatures

\* The fetch outcome of the request in last.
NodeFailed == SignatureWellFormed /\ last.request.node.raises

Fetched == SignatureWellFormed /\ ~last.request.node.raises

NoRecord == Fetched /\ IsNone(last.request.node.resp.value)

HasRecord == Fetched /\ ~IsNone(last.request.node.resp.value)

FailedRecord ==
    HasRecord /\ ~IsNone(last.request.node.resp.value.transaction.meta.err)

LogsOfLast == last.request.node.resp.value.transaction.meta.log_messages

\* The states of the classifier, read off a response.
SevenStates ==
    {"FetchFailed", "FetchUnreachable", "NotFound", "Success",
     "ErrorUnparsed", "ErrorFound", "ErrorUnknown"}

IsError(response, status_code) ==
    response.kind = "HTTPException" /\ response.status_code = status_code

IsBody(response, status) ==
    response.kind = "return" /\ response.body.status = status

InState(state, response) ==
    CASE state = "FetchFailed"      -> IsError(response, 400)
      [] state = "FetchUnreachable" -> IsError(response, 502)
      [] state = "NotFound"         -> IsError(response, 404)
      [] state = "Success"          -> IsBody(response, "success")
      [] state = "ErrorUnparsed"    -> IsBody(response, "error_unparsed")
      [] state = "ErrorFound"       -> IsBody(response, "error_found")
      [] state = "ErrorUnknown"     -> IsBody(response, "error_unknown")

StatesOf(response) == {state \in SevenStates : InState(state, response)}

\* C1 as stated: every request, whatever the process configuration, ends
\* in exactly one of the seven states.
C1_AsStated == Handled => Cardinality(StatesOf(last.response)) = 1

\* C1, amended: a request ends in exactly one of the seven states when
\* SOLANA_RPC_URL is set and non-empty; when it is not, the request ends in
\* none of them but in the HTTP 500 configuration error.
C1_OneOfSevenWhenConfigured ==
    Handled =>
        IF EndpointConfigured
        THEN Cardinality(StatesOf(last.response)) = 1
        ELSE /\ StatesOf(last.response) = {}
             /\ IsError(last.response, 500)

C1_Witness ==
    /\ Handled
    /\ EndpointConfigured
    /\ StatesOf(last.response) = {"ErrorUnknown"}

\* C2 as stated: every failure mode is returned as a value and nothing is
\* raised out of the handler.
C2_AsStated == Handled => last.response.kind = "return"

\* C2, amended: no request ends in an uncaught exception. A malformed
\* signature, a failed node call and a missing record (and a missing
\* SOLANA_RPC_URL) leave the handler as a raised HTTPException with status
\* 400, 502, 404 (500); a fetched record, successful or failed, is answered
\* with a returned body.
C2_NoUncaughtException ==
    Handled =>
        /\ last.response.kind \in {"return", "HTTPException"}
        /\ last.response.kind = "return" <=> (EndpointConfigured /\ HasRecord)
        /\ last.response.kind = "HTTPException" =>
              last.response.status_code \in {400, 502, 404, 500}

C2_Witness ==
    /\ Handled
    /\ EndpointConfigured
    /\ FailedRecord
    /\ last.found.program_id \notin DOMAIN ERROR_DB
    /\ IsBody(last.response, "error_unknown")

\* C3: the node is called at most once per request; a malformed signature
\* gives 400 and nothing else does; every failure of the node call gives
\* 502; a fetch that completes with no record gives 404.
C3_FetchOutcomes ==
    (Handled /\ EndpointConfigured) =>
        /\ last.fetches <= 1
        /\ IsError(last.response, 400) <=> ~SignatureWellFormed
        /\ NodeFailed => IsError(last.response, 502)
        /\ NoRecord => IsError(last.response, 404)

\* C4 as stated: a request is handled only with the catalog loaded and the
\* endpoint configured, and no response reports a missing configuration.
C4_AsStated ==
    Handled =>
        /\ errors_json.exists /\ errors_json.parses
        /\ EndpointConfigured
        /\ ~IsError(last.response, 500)

\* C4, amended: a missing or unparsable errors.json ends the process at
\* import, so every request is handled with the catalog loaded; a missing
\* or empty SOLANA_RPC_URL does not: it is found per request, and the
\* request is then answered 500 without any call to the node.
C4_CatalogAtStartupEndpointPerRequest ==
    /\ phase = "crashed" <=> (phase # "import" /\ ~(errors_json.exists /\ errors_json.parses))
    /\ phase = "crashed" => ~Handled
    /\ Handled =>
          /\ phase = "serving"
          /\ ERROR_DB = errors_json.doc
          /\ IsError(last.response, 500) <=> ~EndpointConfigured
          /\ ~EndpointConfigured => last.fetches = 0

C4_Witness ==
    /\ Handled
    /\ "SOLANA_RPC_URL" \in DOMAIN environ
    /\ ~EndpointConfigured
    /\ IsError(last.response, 500)

\* The indexes of the lines of logs that the pattern matches.
MatchingIndexes(logs) ==
    {i \in 1..Len(logs) : ~IsNone(_ERROR_PATTERN_search(logs[i]))}

NoUpperCase(s) == \A i \in 1..Len(s) : \A j \in 1..26 : s[i] # UpperCase[j]

\* C5: the scan of a failed record's logs yields no match when no line
\* matches; otherwise the match of the lowest-index matching line: its
\* program id, the whole line, and its hex code in lower case.
C5_FirstMatchLowercased ==
    (Handled /\ EndpointConfigured /\ FailedRecord) =>
        LET matching == MatchingIndexes(LogsOfLast)
        IN  IF matching = {}
            THEN last.found = NoMatch
            ELSE LET line == LogsOfLast[Min(matching)]
                     m    == _ERROR_PATTERN_search(line)
                 IN  /\ last.found.matched_log = line
                     /\ last.found.program_id = m.group1
                     /\ Len(last.found.error_code) = Len(m.group2)
                     /\ \A i \in 1..Len(m.group2) :
                           lower_char(m.group2[i]) = last.found.error_code[i]
                     /\ NoUpperCase(last.found.error_code)

C5_Witness ==
    /\ Handled
    /\ EndpointConfigured
    /\ FailedRecord
    /\ MatchingIndexes(LogsOfLast) = {1, 2}
    /\ LogsOfLast[2] = LineTk
    /\ last.found.matched_log = LineTkUpperHex
    /\ last.found.error_code = Code0x1a

\* The catalog has an entry for (program_id, error_code).
HasEntry(db, program_id, error_code) ==
    /\ program_id \in DOMAIN db
    /\ "errors" \in DOMAIN db[program_id]
    /\ error_code \in DOMAIN db[program_id].errors

\* C6: for a failed record whose logs hold a match, the response is
\* error_found exactly when the catalog has an entry for the match's
\* (program_id, error_code), then with that entry's name and message;
\* otherwise it is error_unknown with the matched line.
C6_FoundIffCatalogued ==
    (Handled /\ EndpointConfigured /\ FailedRecord /\ ~IsNone(last.found.program_id)) =>
        LET program_id == last.found.program_id
            error_code == last.found.error_code
        IN  IF HasEntry(ERROR_DB, program_id, error_code)
            THEN /\ IsBody(last.response, "error_found")
                 /\ last.response.body.program_id = program_id
                 /\ last.response.body.error_code = error_code
                 /\ last.response.body.name = ERROR_DB[program_id].errors[error_code].name
                 /\ last.response.body.message = ERROR_DB[program_id].errors[error_code].message
            ELSE /\ IsBody(last.response, "error_unknown")
                 /\ last.response.body.program_id = program_id
                 /\ last.response.body.error_code = error_code
                 /\ last.response.body.raw_log = last.found.matched_log

C6_Witness ==
    /\ Handled
    /\ IsBody(last.response, "error_found")
    /\ last.response.body.name = "OwnerMismatch"
    /\ last.found.matched_log = LineTkUpperHex

SameIgnoringCase(a, b) ==
    /\ Len(a) = Len(b)
    /\ \A i \in 1..Len(a) : lower_char(a[i]) = lower_char(b[i])

\* The entry stored under program_id for error_code, letter case ignored.
StoredEntry(db, program_id, error_code) ==
    IF program_id \notin DOMAIN db \/ "errors" \notin DOMAIN db[program_id]
    THEN None
    ELSE LET errors == db[program_id].errors
             keys   == {k \in DOMAIN errors : SameIgnoringCase(k, error_code)}
         IN  IF keys = {} THEN None ELSE errors[CHOOSE k \in keys : TRUE]

\* C7: _lookup_error gives the same result for error codes that differ only
\* in letter case, the stored entry or None, and None for every code under a
\* program the catalog does not have.
C7_LookupIgnoresCase ==
    (~IsNone(call) /\ call.fn = "_lookup_error") =>
        /\ call.result = StoredEntry(ERROR_DB, call.program_id, call.error_code)
        /\ \A other \in ProbeCodes :
              SameIgnoringCase(other, call.error_code) =>
                  _lookup_error(ERROR_DB, call.program_id, other) = call.result
        /\ call.program_id \notin DOMAIN ERROR_DB => IsNone(call.result)

C7_Witness ==
    /\ ~IsNone(call)
    /\ call.fn = "_lookup_error"
    /\ call.error_code = <<"0","X","1","A">>
    /\ call.result = OwnerMismatch

\* C8: _program_name never raises; it returns the catalog's name of a
\* program the catalog has, and the program id itself otherwise.
C8_ProgramNameTotal ==
    (~IsNone(call) /\ call.fn = "_program_name") =>
        /\ ~call.raises
        /\ IF call.program_id \in DOMAIN ERROR_DB
           THEN call.result = ERROR_DB[call.program_id].name
           ELSE call.result = call.program_id

C8_Witness ==
    /\ ~IsNone(call)
    /\ call.fn = "_program_name"
    /\ ERROR_DB = CatalogTwo
    /\ call.program_id = <<"J","U","P">>
    /\ call.result = <<"J","U","P">>

\* C9: the catalog in use is the one read from errors.json, in every state;
\* a request that repeats the one before it gets the same response; and the
\* response to any request, wherever it comes in the sequence, is the one
\* its signature and the node's answer give with the catalog as loaded.
C9_DeterministicCatalogUntouched ==
    /\ phase = "serving" => ERROR_DB = errors_json.doc
    /\ same_input => same_outcome
    /\ Handled =>
          last.response =
              analyze_transaction(environ, errors_json.doc,
                                  last.request.signature, last.request.node).response

C9_Witness ==
    /\ same_input
    /\ same_outcome
    /\ IsBody(last.response, "error_unknown")
    /\ ERROR_DB = CatalogTwo

EqualText(a, b, ignore_case) ==
    /\ Len(a) = Len(b)
    /\ \A i \in 1..Len(a) :
          IF ignore_case THEN lower_char(a[i]) = lower_char(b[i]) ELSE a[i] = b[i]

Slice(line, i, n) == SubSeq(line, i, i + n - 1)

\* line holds "Program <id> failed: custom program error: <0x><hex digit>",
\* <id> a run of non-whitespace characters; the fixed words compared with or
\* without regard to letter case, the 0x prefix always without.
HasCustomErrorForm(line, ignore_case) ==
    \E s \in 1..Len(line), k \in 1..Len(line) :
        LET p == s + Len(TextProgram)
            q == p + k
            c == q + Len(TextFailed)
        IN  /\ c + 2 <= Len(line)
            /\ EqualText(Slice(line, s, Len(TextProgram)), TextProgram, ignore_case)
            /\ \A j \in p..(q - 1) : line[j] \notin {" ", "\t", "\n", "\r"}
            /\ EqualText(Slice(line, q, Len(TextFailed)), TextFailed, ignore_case)
            /\ EqualText(Slice(line, c, 2), <<"0","x">>, TRUE)
            /\ line[c + 2] \in HexDigits

FormOf == [line \in Lines |->
              [exact_words |-> HasCustomErrorForm(line, FALSE),
               any_case    |-> HasCustomErrorForm(line, TRUE)]]

\* C10 as stated: the scan takes a line for a custom-error line exactly when
\* it has the form with the fixed words in the pattern's letter case.
C10_AsStated ==
    (Handled /\ EndpointConfigured /\ FailedRecord) =>
        /\ ~IsNone(last.found.matched_log) => FormOf[last.found.matched_log].exact_words
        /\ IsNone(last.found.matched_log) =>
              \A i \in 1..Len(LogsOfLast) : ~FormOf[LogsOfLast[i]].exact_words

\* C10, amended: the scan takes a line for a custom-error line exactly when
\* the line contains the form with letter case ignored throughout, in the
\* fixed words as well as in the 0x prefix and the hex digits.
C10_FormIgnoringCase ==
    (Handled /\ EndpointConfigured /\ FailedRecord) =>
        /\ ~IsNone(last.found.matched_log) => FormOf[last.found.matched_log].any_case
        /\ IsNone(last.found.matched_log) =>
              \A i \in 1..Len(LogsOfLast) : ~FormOf[LogsOfLast[i]].any_case

C10_Witness ==
    /\ Handled
    /\ EndpointConfigured
    /\ FailedRecord
    /\ last.found.matched_log = LineJupShout
    /\ last.found.program_id = Jup

====
